---- MODULE Spec2Model ----
(***************************************************************************)
(* retryExchange (exchanges/retry/src/retryExchange.ts): an exchange that  *)
(* suppresses retryable failed results, re-submits their operation after a *)
(* backoff delay, and cancels a waiting retry when a teardown or a fresh   *)
(* query for the same key comes in on the inbound operation stream.        *)
(*                                                                         *)
(* Durations are kept in microseconds so that the products of a delay with *)
(* the backoff factor stay exact integers.                                 *)
(***************************************************************************)
EXTENDS Integers, FiniteSets, Bags, TLC

\* ---------------------------------------------------------------- bounds
MaxInbound == 2

\* ------------------------------------------------------------- constants
UsPerMs == 1000
Undefined == 0 - 1
DEFAULT_MIN_DELAY == 1000
DEFAULT_MAX_DELAY == 15000
DEFAULT_MAX_ATTEMPTS == 2

Keys == {"k1", "k2"}
OperationNames == {"query", "mutation", "teardown"}
\* res.error: absent, or a CombinedError with a networkError or with
\* graphQLErrors only
Errors == {"none", "network", "graphql"}
\* Math.random() in [0, 1), in quarters
RandomDraws == {0, 2}

Ms(n) == n * UsPerMs

Option(initialDelayMs, maxDelayMs, randomDelay, maxNumberAttempts, retryIfOption) ==
  [ initialDelayMs |-> initialDelayMs, maxDelayMs |-> maxDelayMs,
    randomDelay |-> randomDelay, maxNumberAttempts |-> maxNumberAttempts,
    retryIf |-> retryIfOption ]

\* RetryExchangeOptions the exchange is built with: every option may be left
\* out; 0 is as good as left out
Options ==
  { Option(Undefined, Undefined, "undefined", Undefined, "undefined"),
    Option(Ms(100), Ms(150), "false", 3, "undefined"),
    Option(Ms(100), Ms(200), "true", 0, "graphQLErrors"),
    Option(Undefined, Ms(1000), "undefined", 1, "graphQLErrors") }

\* maxNumberAttempts = 3, initialDelayMs = 100, maxDelayMs = 1000,
\* randomDelay = false
NoJitterOptions == Option(Ms(100), Ms(1000), "false", 3, "undefined")

VARIABLES
  options,      \* the RetryExchangeOptions the exchange was built with
  issued,       \* number of operations the caller has pushed into ops$
  inflight,     \* operations handed to forward and not yet answered
  pending,      \* retries waiting on delay(), takeUntil not ended
  forwarded,    \* bag: every operation that entered forward
  results,      \* bag: every result forward emitted into the filter
  scheduled,    \* bag: every inner source mergeMap built
  delivered,    \* bag: every result that passed the filter to the caller
  debugEvents,  \* bag: every dispatchDebug call
  superseded,   \* history: retries that were waiting when a teardown or a
                \* query of their key came in on ops$
  disposed,     \* the caller has closed result$
  closedWith    \* history: what had been observed when result$ was closed

vars == << options, issued, inflight, pending, forwarded, results, scheduled,
           delivered, debugEvents, superseded, disposed, closedWith >>

\* JavaScript `x || d` on an optional number: undefined and 0 are falsy
OrElse(x, d) == IF x = Undefined \/ x = 0 THEN d ELSE x

MIN_DELAY == OrElse(options.initialDelayMs, Ms(DEFAULT_MIN_DELAY))
MAX_DELAY == OrElse(options.maxDelayMs, Ms(DEFAULT_MAX_DELAY))
MAX_ATTEMPTS == OrElse(options.maxNumberAttempts, DEFAULT_MAX_ATTEMPTS)
\* `randomDelay || true`: a truthy option is itself, a falsy one is true
RANDOM_DELAY == IF options.randomDelay = "true" THEN TRUE ELSE TRUE

\* mutant: the retryIf option is ignored
retryIfDefaultOnly(err) == err # "none" /\ err = "network"

\* retryIfOption || (err => err && err.networkError); the retryIf option of
\* Options is err => err.graphQLErrors.length > 0
retryIf(err) ==
  IF options.retryIf = "undefined"
  THEN err # "none" /\ err = "network"
  ELSE err = "graphql"

\* mutant: the count is carried over without the increment
retryCountKept(op) == OrElse(op.retryCount, 0)

\* mutant: the count is incremented twice
retryCountSkips(op) == OrElse(op.retryCount, 0) + 2

\* (context.retryCount || 0) + 1
retryCount(op) == OrElse(op.retryCount, 0) + 1

\* Math.random() + 1.5, as a fraction over backoffFactorDen
backoffFactorNum(rnd) == rnd + 6
backoffFactorDen == 4

\* mutant: the delay before scaling, not the scaled one, is held against the
\* maximum
delayAmountLateCap(op, rnd) ==
  LET start == OrElse(op.retryDelay, MIN_DELAY)
  IN IF RANDOM_DELAY /\ start < MAX_DELAY
     THEN (start * backoffFactorNum(rnd)) \div backoffFactorDen
     ELSE start

\* mutant: every retry starts from the initial delay again
delayAmountFromMin(op, rnd) ==
  LET start == MIN_DELAY
  IN IF RANDOM_DELAY
        /\ start * backoffFactorNum(rnd) < MAX_DELAY * backoffFactorDen
     THEN (start * backoffFactorNum(rnd)) \div backoffFactorDen
     ELSE start

delayAmount(op, rnd) ==
  LET start == OrElse(op.retryDelay, MIN_DELAY)
  IN IF RANDOM_DELAY
        /\ start * backoffFactorNum(rnd) < MAX_DELAY * backoffFactorDen
     THEN (start * backoffFactorNum(rnd)) \div backoffFactorDen
     ELSE start

\* mutant: only a teardown stops a waiting retry
teardownFilterTeardownOnly(op, key) ==
  /\ op.operationName = "teardown"
  /\ op.key = key

\* mutant: the key of the operation is not compared
teardownFilterAnyKey(op, key) ==
  op.operationName = "query" \/ op.operationName = "teardown"

\* the filter of teardown$ for a retry of `key`
teardownFilter(op, key) ==
  /\ op.operationName = "query" \/ op.operationName = "teardown"
  /\ op.key = key

\* mutant: the comparison is off by one
maxNumberAttemptsExceededLate(op) == OrElse(op.retryCount, 0) >= MAX_ATTEMPTS

maxNumberAttemptsExceeded(op) == OrElse(op.retryCount, 0) >= MAX_ATTEMPTS - 1

\* mutant: an exhausted failure passes without the diagnostic
filterVerdictSilent(res) ==
  IF res.error = "none" \/ ~retryIf(res.error)
  THEN "pass"
  ELSE IF ~(OrElse(res.operation.retryCount, 0) >= MAX_ATTEMPTS - 1)
  THEN "retry"
  ELSE "pass"

\* mutant: the attempts are compared before the error is looked at
filterVerdictCountFirst(res) ==
  IF OrElse(res.operation.retryCount, 0) >= MAX_ATTEMPTS - 1
  THEN "exhausted"
  ELSE IF res.error = "none" \/ ~retryIf(res.error)
  THEN "pass"
  ELSE "retry"

\* what the filter does with a result: "pass" (return true), "retry"
\* (nextRetryOperation, return false) or "exhausted" (dispatchDebug, return true)
filterVerdict(res) ==
  IF res.error = "none" \/ ~retryIf(res.error)
  THEN "pass"
  ELSE IF ~maxNumberAttemptsExceeded(res.operation)
  THEN "retry"
  ELSE "exhausted"

\* mutant: the operation is built anew as a query instead of spread from op
retryOperationAsQuery(op, rnd) ==
  [ op EXCEPT !.operationName = "query", !.retryDelay = delayAmount(op, rnd),
              !.retryCount = retryCount(op) ]

\* the operation a retry re-submits: {...op, context: {...op.context,
\* retryDelay, retryCount}}
retryOperation(op, rnd) ==
  [ op EXCEPT !.retryDelay = delayAmount(op, rnd), !.retryCount = retryCount(op) ]

\* one inner source of mergeMap: the failed operation it was built for, the
\* operation to re-submit, the delay it waits and the key its teardown$ looks for
Retry(op, rnd) ==
  [ failed |-> op, op |-> retryOperation(op, rnd), delay |-> delayAmount(op, rnd),
    key |-> op.key ]

Result(op, err) == [ operation |-> op, error |-> err ]

DebugEvent(type, op, count) == [ type |-> type, operation |-> op, retryCount |-> count ]

Put(bag, x) == bag (+) SetToBag({x})

\* mutant: ops$ is not shared, every subscriber pulls its own emission
sharedOpsPerSubscriber(bag, op, watchers) ==
  bag (+) [ x \in {op} |-> 1 + Cardinality(watchers) ]

\* share: one emission of ops$ reaches merge once, whatever the number of
\* teardown$ subscribed next to it
sharedOps(bag, op, watchers) == Put(bag, op)

Observed ==
  [ forwarded |-> forwarded, delivered |-> delivered, debugEvents |-> debugEvents,
    pending |-> pending, inflight |-> inflight ]

Init ==
  /\ options \in Options
  /\ issued = 0
  /\ inflight = {}
  /\ pending = {}
  /\ forwarded = EmptyBag
  /\ results = EmptyBag
  /\ scheduled = EmptyBag
  /\ delivered = EmptyBag
  /\ debugEvents = EmptyBag
  /\ superseded = {}
  /\ disposed = FALSE
  /\ closedWith = Observed

\* mutant: a cancelled retry reports itself as exhausted
InboundCancelReports(key, name) ==
  LET op == [ id |-> issued + 1, key |-> key, operationName |-> name,
              retryCount |-> Undefined, retryDelay |-> Undefined ]
      gone == { r \in pending : teardownFilter(op, r.key) }
  IN /\ ~disposed
     /\ issued < MaxInbound
     /\ issued' = issued + 1
     /\ forwarded' = sharedOps(forwarded, op, pending)
     /\ inflight' = IF name = "teardown" THEN inflight ELSE inflight \cup {op}
     /\ pending' = pending \ gone
     /\ superseded' = superseded \cup gone
     /\ debugEvents' = debugEvents (+)
          SetToBag({ DebugEvent("retryExhausted", r.op, Undefined) : r \in gone })
     /\ UNCHANGED << options, results, scheduled, delivered, disposed, closedWith >>

\* mutant: a matching operation also takes back the retries of its key that
\* forward has not answered yet
InboundRetracts(key, name) ==
  LET op == [ id |-> issued + 1, key |-> key, operationName |-> name,
              retryCount |-> Undefined, retryDelay |-> Undefined ]
      kept == { o \in inflight : ~(o.retryDelay # Undefined /\ teardownFilter(op, o.key)) }
  IN /\ ~disposed
     /\ issued < MaxInbound
     /\ issued' = issued + 1
     /\ forwarded' = sharedOps(forwarded, op, pending)
     /\ inflight' = IF name = "teardown" THEN kept ELSE kept \cup {op}
     /\ pending' = { r \in pending : ~teardownFilter(op, r.key) }
     /\ superseded' = superseded \cup
          { r \in pending : name \in {"query", "teardown"} /\ r.op.key = key }
     /\ UNCHANGED << options, results, scheduled, delivered, debugEvents, disposed,
                     closedWith >>

\* ops$ emits an operation: share hands it to merge -> forward first, then to
\* the teardown$ of every waiting retry, whose takeUntil ends on a match.
\* forward owes no result for a teardown.
Inbound(key, name) ==
  LET op == [ id |-> issued + 1, key |-> key, operationName |-> name,
              retryCount |-> Undefined, retryDelay |-> Undefined ]
  IN /\ ~disposed
     /\ issued < MaxInbound
     /\ issued' = issued + 1
     /\ forwarded' = sharedOps(forwarded, op, pending)
     /\ inflight' = IF name = "teardown" THEN inflight ELSE inflight \cup {op}
     /\ pending' = { r \in pending : ~teardownFilter(op, r.key) }
     /\ superseded' = superseded \cup
          { r \in pending : name \in {"query", "teardown"} /\ r.op.key = key }
     /\ UNCHANGED << options, results, scheduled, delivered, debugEvents, disposed,
                     closedWith >>

\* mutant: the filter lets the result it retries through as well
ExecutorResultDeliversRetried(op, err, rnd) ==
  LET res == Result(op, err)
      verdict == filterVerdict(res)
  IN /\ ~disposed
     /\ op \in inflight
     /\ inflight' = inflight \ {op}
     /\ results' = Put(results, res)
     /\ delivered' = Put(delivered, res)
     /\ pending' = IF verdict = "retry" THEN pending \cup {Retry(op, rnd)} ELSE pending
     /\ scheduled' = IF verdict = "retry" THEN Put(scheduled, Retry(op, rnd))
                                          ELSE scheduled
     /\ debugEvents' =
          CASE verdict = "pass" -> debugEvents
            [] verdict = "retry" ->
                 Put(debugEvents, DebugEvent("retryAttempt", op, retryCount(op)))
            [] verdict = "exhausted" ->
                 Put(debugEvents, DebugEvent("retryExhausted", op, Undefined))
     /\ UNCHANGED << options, issued, forwarded, superseded, disposed, closedWith >>

\* forward answers an operation and the result runs through the filter: it
\* passes, or nextRetryOperation hands its operation to mergeMap
ExecutorResult(op, err, rnd) ==
  LET res == Result(op, err)
      verdict == filterVerdict(res)
  IN /\ ~disposed
     /\ op \in inflight
     /\ inflight' = inflight \ {op}
     /\ results' = Put(results, res)
     /\ delivered' = IF verdict = "retry" THEN delivered ELSE Put(delivered, res)
     /\ pending' = IF verdict = "retry" THEN pending \cup {Retry(op, rnd)} ELSE pending
     /\ scheduled' = IF verdict = "retry" THEN Put(scheduled, Retry(op, rnd))
                                          ELSE scheduled
     /\ debugEvents' =
          CASE verdict = "pass" -> debugEvents
            [] verdict = "retry" ->
                 Put(debugEvents, DebugEvent("retryAttempt", op, retryCount(op)))
            [] verdict = "exhausted" ->
                 Put(debugEvents, DebugEvent("retryExhausted", op, Undefined))
     /\ UNCHANGED << options, issued, forwarded, superseded, disposed, closedWith >>

\* mutant: the re-submitted operation runs through ops$ and the teardown$ of
\* the other waiting retries see it
TimerFireThroughOps(r) ==
  /\ r \in pending
  /\ pending' = { x \in pending \ {r} : ~teardownFilter(r.op, x.key) }
  /\ superseded' = superseded \cup
       { x \in pending \ {r} : teardownFilter(r.op, x.key) }
  /\ forwarded' = Put(forwarded, r.op)
  /\ inflight' = inflight \cup {r.op}
  /\ UNCHANGED << options, issued, results, scheduled, delivered, debugEvents,
                  disposed, closedWith >>

\* mutant: the delay elapses and the operation is not emitted
TimerFireDrops(r) ==
  /\ r \in pending
  /\ pending' = pending \ {r}
  /\ UNCHANGED << options, issued, inflight, forwarded, results, scheduled,
                  delivered, debugEvents, superseded, disposed, closedWith >>

\* mutant: the inner source is not completed, the retry stays waiting
TimerFireKeeps(r) ==
  /\ r \in pending
  /\ forwarded' = Put(forwarded, r.op)
  /\ inflight' = inflight \cup {r.op}
  /\ UNCHANGED << options, issued, pending, results, scheduled, delivered,
                  debugEvents, superseded, disposed, closedWith >>

\* the delay of a waiting retry elapses: the operation goes through mergeMap
\* and merge into forward, and takeUntil closes its teardown$
TimerFire(r) ==
  /\ r \in pending
  /\ pending' = pending \ {r}
  /\ forwarded' = Put(forwarded, r.op)
  /\ inflight' = inflight \cup {r.op}
  /\ UNCHANGED << options, issued, results, scheduled, delivered, debugEvents,
                  superseded, disposed, closedWith >>

\* mutant: closing result$ leaves the waiting retries alone
DisposeLeavesTimers ==
  /\ ~disposed
  /\ disposed' = TRUE
  /\ closedWith' = Observed
  /\ UNCHANGED << options, issued, inflight, pending, forwarded, results, scheduled,
                  delivered, debugEvents, superseded >>

\* the caller closes result$: Close runs up through filter, share, forward,
\* merge and mergeMap to every takeUntil, and through share to ops$
Dispose ==
  /\ ~disposed
  /\ disposed' = TRUE
  /\ pending' = {}
  /\ closedWith' = Observed
  /\ UNCHANGED << options, issued, inflight, forwarded, results, scheduled,
                  delivered, debugEvents, superseded >>

\* forward answers after result$ was closed: share has no sink left and the
\* filter does not run
ResultAfterDispose(op) ==
  /\ disposed
  /\ op \in inflight
  /\ inflight' = inflight \ {op}
  /\ UNCHANGED << options, issued, pending, forwarded, results, scheduled,
                  delivered, debugEvents, superseded, disposed, closedWith >>

Next ==
  \/ \E key \in Keys, name \in OperationNames : Inbound(key, name)
  \/ \E op \in inflight, err \in Errors, rnd \in RandomDraws :
       ExecutorResult(op, err, rnd)
  \/ \E r \in pending : TimerFire(r)
  \/ Dispose
  \/ \E op \in inflight : ResultAfterDispose(op)

Spec == Init /\ [][Next]_vars

\* the exchange built with NoJitterOptions
InitNoJitter ==
  /\ options = NoJitterOptions
  /\ issued = 0
  /\ inflight = {}
  /\ pending = {}
  /\ forwarded = EmptyBag
  /\ results = EmptyBag
  /\ scheduled = EmptyBag
  /\ delivered = EmptyBag
  /\ debugEvents = EmptyBag
  /\ superseded = {}
  /\ disposed = FALSE
  /\ closedWith = Observed

SpecNoJitter == InitNoJitter /\ [][Next]_vars

\* ------------------------------------------------------------ properties

RECURSIVE Total(_, _)
\* the number of copies the bag holds of the elements of S
Total(bag, S) ==
  IF S = {}
  THEN 0
  ELSE LET x == CHOOSE y \in S : TRUE
       IN CopiesIn(x, bag) + Total(bag, S \ {x})

Count(bag, Test(_)) == Total(bag, { x \in BagToSet(bag) : Test(x) })

\* retryCount as the filter reads it
Attempts(op) == IF op.retryCount = Undefined THEN 0 ELSE op.retryCount

\* a re-submitted operation carries a retryDelay, an operation of ops$ none
IsRetryOp(op) == op.retryDelay # Undefined

\* the error passes the predicate the exchange was configured with
Retryable(err) ==
  /\ err # "none"
  /\ IF options.retryIf = "undefined" THEN err = "network" ELSE err = "graphql"

\* C1: an operation issued by the caller enters the executor at most
\* maxNumberAttempts times, first attempt included, and is re-submitted at most
\* maxNumberAttempts - 1 times
C1_AttemptsBounded ==
  \A i \in 1 .. issued :
    LET sent(op) == op.id = i
        resent(op) == op.id = i /\ IsRetryOp(op)
    IN /\ Count(forwarded, sent) <= MAX_ATTEMPTS
       /\ Count(forwarded, resent) <= MAX_ATTEMPTS - 1

C1_Witness ==
  /\ MAX_ATTEMPTS = 3
  /\ \E i \in 1 .. issued :
       LET sent(op) == op.id = i
           resent(op) == op.id = i /\ IsRetryOp(op)
       IN /\ Count(forwarded, sent) = 3
          /\ Count(forwarded, resent) = 2
          /\ \E res \in BagToSet(delivered) :
               res.operation.id = i /\ res.error = "network"

\* C2: a retryable failure of an operation with retryCount >= maxNumberAttempts - 1
\* is delivered to the caller, with exactly one retryExhausted diagnostic for
\* the operation, and no retry is scheduled or re-submitted for it
C2_ExhaustedDelivered ==
  \A res \in BagToSet(results) :
    (Retryable(res.error) /\ Attempts(res.operation) >= MAX_ATTEMPTS - 1) =>
      LET about(e) == e.operation = res.operation
          exhausted(e) == e.operation = res.operation /\ e.type = "retryExhausted"
          retryOf(r) == r.failed = res.operation
          later(op) == op.id = res.operation.id
                       /\ Attempts(op) > Attempts(res.operation)
      IN /\ CopiesIn(res, delivered) = CopiesIn(res, results)
         /\ Count(debugEvents, exhausted) = 1
         /\ Count(debugEvents, about) = 1
         /\ Count(scheduled, retryOf) = 0
         /\ \A r \in pending : r.failed # res.operation
         /\ Count(forwarded, later) = 0

C2_Witness ==
  \E res \in BagToSet(results) :
    /\ Retryable(res.error)
    /\ Attempts(res.operation) = MAX_ATTEMPTS - 1
    /\ Attempts(res.operation) >= 1
    /\ BagIn(res, delivered)
    /\ BagIn(DebugEvent("retryExhausted", res.operation, Undefined), debugEvents)

\* C3: a retryable failure of an operation with attempts = retryCount <
\* maxNumberAttempts - 1 does not reach the caller, and exactly one operation
\* to re-submit is produced for it, with retryCount = attempts + 1
C3_RetrySuppressesAndResubmitsOnce ==
  \A res \in BagToSet(results) :
    (Retryable(res.error) /\ Attempts(res.operation) < MAX_ATTEMPTS - 1) =>
      LET retryOf(r) == r.failed = res.operation
          next(r) == /\ r.failed = res.operation
                     /\ r.op.retryCount = Attempts(res.operation) + 1
          resent(op) == /\ op.id = res.operation.id
                        /\ IsRetryOp(op)
                        /\ op.retryCount = Attempts(res.operation) + 1
      IN /\ ~BagIn(res, delivered)
         /\ CopiesIn(res, results) = 1
         /\ Count(scheduled, retryOf) = 1
         /\ Count(scheduled, next) = 1
         /\ Count(forwarded, resent) <= 1

C3_Witness ==
  \E res \in BagToSet(results), op \in BagToSet(forwarded) :
    /\ Retryable(res.error)
    /\ Attempts(res.operation) = 1
    /\ MAX_ATTEMPTS = 3
    /\ op.id = res.operation.id
    /\ op.retryCount = 2
    /\ ~BagIn(res, delivered)

\* C4: a retry that is waiting when a teardown or a fresh query of its key
\* comes in is never forwarded to the executor, then or later, and no result
\* of it reaches the caller
C4_SupersededNeverForwarded ==
  \A r \in superseded :
    LET answers(res) == res.operation = r.op
    IN /\ r \notin pending
       /\ ~BagIn(r.op, forwarded)
       /\ r.op \notin inflight
       /\ Count(results, answers) = 0
       /\ Count(delivered, answers) = 0

C4_Witness ==
  \E r \in superseded, op \in BagToSet(forwarded) :
    /\ op.operationName = "query"
    /\ op.key = r.key
    /\ op.id > r.op.id
    /\ ~IsRetryOp(op)
    /\ \E res \in BagToSet(delivered) : res.operation = op

\* C5: a result without an error, or with an error the predicate rejects, is
\* delivered to the caller as it is, whatever the retryCount of its operation;
\* it schedules no retry and emits no diagnostic
C5_PassThrough ==
  \A res \in BagToSet(results) :
    ~Retryable(res.error) =>
      LET about(e) == e.operation = res.operation
          retryOf(r) == r.failed = res.operation
      IN /\ CopiesIn(res, delivered) = CopiesIn(res, results)
         /\ Count(debugEvents, about) = 0
         /\ Count(scheduled, retryOf) = 0
         /\ \A r \in pending : r.failed # res.operation

C5_Witness ==
  \E res \in BagToSet(results) :
    /\ res.error = "none"
    /\ Attempts(res.operation) >= MAX_ATTEMPTS - 1
    /\ Attempts(res.operation) >= 1
    /\ BagIn(res, delivered)

\* C6: the predicate alone decides whether a failure takes the retry path:
\* without a retryIf option, exactly the failures with a network error do (a
\* failure with GraphQL errors only is delivered and not retried); with a
\* retryIf option, exactly the failures it accepts do, network error or not.
\* A failure on the retry path is retried while attempts remain.
C6_PredicateDecides ==
  \A res \in BagToSet(results) :
    res.error # "none" =>
      LET about(e) == e.operation = res.operation
          retryOf(r) == r.failed = res.operation
          eligible == IF options.retryIf = "undefined"
                      THEN res.error = "network"
                      ELSE res.error = "graphql"
          remaining == Attempts(res.operation) < MAX_ATTEMPTS - 1
      IN /\ (Count(debugEvents, about) = 1) <=> eligible
         /\ (Count(scheduled, retryOf) = 1) <=> (eligible /\ remaining)
         /\ (Count(scheduled, retryOf) = 0) <=> ~(eligible /\ remaining)
         /\ ~eligible => BagIn(res, delivered)

C6_Witness ==
  /\ options.retryIf = "graphQLErrors"
  /\ \E res \in BagToSet(results), other \in BagToSet(results) :
       LET retryOf(r) == r.failed = res.operation
       IN /\ res.error = "graphql"
          /\ Count(scheduled, retryOf) = 1
          /\ other.error = "network"
          /\ BagIn(other, delivered)

\* C7: with randomDelay = false the delay is never multiplied by the backoff
\* factor: under NoJitterOptions every retry waits exactly 100ms and writes
\* retryDelay = 100ms into the operation it re-submits, and three network
\* failures of one operation give two retries, then the third failure
\* delivered with a retryExhausted diagnostic, and no fourth attempt
C7_NoJitterWhenDisabled ==
  options.randomDelay = "false" =>
    /\ \A r \in BagToSet(scheduled) :
         /\ r.delay = OrElse(r.failed.retryDelay, MIN_DELAY)
         /\ r.op.retryDelay = r.delay
         /\ options = NoJitterOptions => r.delay = Ms(100)
    /\ \A i \in 1 .. issued :
         LET failure(res) == res.operation.id = i /\ res.error = "network"
             retryOf(r) == r.failed.id = i
             sent(op) == op.id = i
             exhausted(e) == e.operation.id = i /\ e.type = "retryExhausted"
             last(res) == /\ res.operation.id = i
                          /\ res.error = "network"
                          /\ res.operation.retryCount = 2
         IN (options = NoJitterOptions /\ Count(results, failure) = 3) =>
              /\ Count(scheduled, retryOf) = 2
              /\ Count(forwarded, sent) = 3
              /\ Count(delivered, last) = 1
              /\ Count(debugEvents, exhausted) = 1

\* C8: every operation scheduled for a retry or forwarded to the executor
\* carries retryCount <= maxNumberAttempts - 1
C8_RetryCountBounded ==
  /\ \A op \in BagToSet(forwarded) : Attempts(op) <= MAX_ATTEMPTS - 1
  /\ \A r \in BagToSet(scheduled) \cup pending :
       /\ Attempts(r.op) <= MAX_ATTEMPTS - 1
       /\ Attempts(r.failed) <= MAX_ATTEMPTS - 1

C8_Witness ==
  \E op \in BagToSet(forwarded), res \in BagToSet(results) :
    /\ op.retryCount = MAX_ATTEMPTS - 1
    /\ op.retryCount = 2
    /\ res.operation = op
    /\ Retryable(res.error)

C10_NothingAfterDispose ==
  disposed =>
    /\ pending = {}
    /\ forwarded = closedWith.forwarded
    /\ delivered = closedWith.delivered
    /\ debugEvents = closedWith.debugEvents

C10_Witness ==
  /\ disposed
  /\ closedWith.pending # {}
  /\ closedWith.inflight # {}
  /\ inflight = {}

\* C11: at most one retry is waiting per operation key
C11_OnePendingPerKey ==
  \A r1 \in pending, r2 \in pending : r1.key = r2.key => r1 = r2

\* C11, amended: at most one retry is waiting per operation issued by the
\* caller; two retries waiting for one key stem from two operations of ops$
C11_OnePendingPerOperation ==
  \A r1 \in pending, r2 \in pending :
    /\ r1.op.id = r2.op.id => r1 = r2
    /\ (r1.key = r2.key /\ r1 # r2) => r1.failed.id # r2.failed.id

C11_Witness ==
  \E r1 \in pending, r2 \in pending :
    /\ r1.key = r2.key
    /\ r1.op.id # r2.op.id

\* ------------------------------------------------- backoff along one chain

\* three attempts, so that a delay is computed from a stored retryDelay, with
\* and without room under maxDelayMs
BackoffOptions ==
  { NoJitterOptions, Option(Ms(100), Ms(200), "true", 3, "undefined") }

InitBackoff ==
  /\ options \in BackoffOptions
  /\ issued = 0
  /\ inflight = {}
  /\ pending = {}
  /\ forwarded = EmptyBag
  /\ results = EmptyBag
  /\ scheduled = EmptyBag
  /\ delivered = EmptyBag
  /\ debugEvents = EmptyBag
  /\ superseded = {}
  /\ disposed = FALSE
  /\ closedWith = Observed

\* the operations of ops$ all have the key k1
NextBackoff ==
  \/ \E name \in OperationNames : Inbound("k1", name)
  \/ \E op \in inflight, err \in Errors, rnd \in RandomDraws :
       ExecutorResult(op, err, rnd)
  \/ \E r \in pending : TimerFire(r)
  \/ Dispose
  \/ \E op \in inflight : ResultAfterDispose(op)

SpecBackoff == InitBackoff /\ [][NextBackoff]_vars

\* the delay a retry starts from: the retryDelay stored on the failed
\* operation, the initial delay when there is none
StartDelay(r) ==
  IF r.failed.retryDelay = Undefined THEN MIN_DELAY ELSE r.failed.retryDelay

\* the delay is the start delay times a factor in [1.5, 2.5)
Scaled(r) ==
  /\ 2 * r.delay >= 3 * StartDelay(r)
  /\ 2 * r.delay < 5 * StartDelay(r)

\* C12: the delay of a retry is its start delay, either as it is or times a
\* factor in [1.5, 2.5) and then below maxDelayMs; while initialDelayMs <
\* maxDelayMs every retryDelay is >= initialDelayMs and < maxDelayMs
C12_DelayBelowMax ==
  \A r \in BagToSet(scheduled) :
    /\ r.delay = StartDelay(r) \/ (Scaled(r) /\ r.delay < MAX_DELAY)
    /\ MIN_DELAY < MAX_DELAY =>
         /\ r.op.retryDelay >= MIN_DELAY
         /\ r.op.retryDelay < MAX_DELAY

C12_Witness ==
  /\ MIN_DELAY < MAX_DELAY
  /\ \E r1 \in BagToSet(scheduled), r2 \in BagToSet(scheduled) :
       /\ IsRetryOp(r1.failed)
       /\ Scaled(r1)
       /\ IsRetryOp(r2.failed)
       /\ r2.delay = StartDelay(r2)
       /\ 2 * r2.delay > MAX_DELAY

\* C13: along the retries of one operation the delay starts from the
\* retryDelay stored on the failed operation, so it never decreases, and the
\* delay waited is the retryDelay written into the re-submitted operation
C13_DelayCarriedForward ==
  \A r \in BagToSet(scheduled) :
    /\ r.delay = r.op.retryDelay
    /\ r.delay = StartDelay(r) \/ Scaled(r)
    /\ IsRetryOp(r.failed) => r.op.retryDelay >= r.failed.retryDelay
    /\ ~IsRetryOp(r.failed) => r.op.retryDelay >= MIN_DELAY

C13_Witness ==
  \E r \in BagToSet(scheduled) :
    /\ IsRetryOp(r.failed)
    /\ r.failed.retryDelay > MIN_DELAY
    /\ r.op.retryDelay > r.failed.retryDelay
    /\ BagIn(r.op, forwarded)

\* the step lets `op` in from ops$
Arrives(op) ==
  /\ issued' = issued + 1
  /\ op.id = issued'
  /\ ~IsRetryOp(op)
  /\ BagIn(op, forwarded')

\* C14: the retries of distinct keys do not touch each other: a waiting retry
\* leaves the waiting state only when the stream is closed, when its own
\* delay elapses, or when an operation of its own key comes in; and a retry
\* built for a failed operation takes its key, retryCount and delay from
\* that operation and leaves the retries already waiting as they are
C14_KeysIndependent ==
  [][ /\ \A r \in pending \ pending' :
           \/ disposed'
           \/ CopiesIn(r.op, forwarded') = CopiesIn(r.op, forwarded) + 1
           \/ \E op \in BagToSet(forwarded') : Arrives(op) /\ op.key = r.key
      /\ \A r \in BagToSet(scheduled') \ BagToSet(scheduled) :
           /\ r.key = r.failed.key
           /\ r.op.key = r.failed.key
           /\ r.op.retryCount = Attempts(r.failed) + 1
           /\ r.delay = StartDelay(r) \/ Scaled(r)
           /\ pending' = pending \cup {r}
    ]_vars

C14_Witness ==
  \E r1 \in pending, r2 \in pending :
    /\ r1.key # r2.key
    /\ r1.failed.id < r2.failed.id
    /\ r1.op.retryDelay > r2.op.retryDelay

\* C15: a retry whose delay elapses while it is still waiting enters the
\* executor exactly once and stops waiting; an operation of its key that
\* comes in afterwards does not take it back (it stays with the executor
\* until answered) and enters the executor itself
C15_ElapsedRetryStays ==
  \A r \in BagToSet(scheduled) :
    BagIn(r.op, forwarded) =>
      LET answers(res) == res.operation = r.op
          sameKey(op) == ~IsRetryOp(op) /\ op.key = r.key /\ op.id # r.op.id
      IN /\ CopiesIn(r.op, forwarded) = 1
         /\ r \notin pending
         /\ r \notin superseded
         /\ Count(results, answers) <= 1
         /\ ~disposed => ((r.op \in inflight) <=> (Count(results, answers) = 0))
         /\ \A op \in BagToSet(forwarded) : sameKey(op) => CopiesIn(op, forwarded) = 1

C15_Witness ==
  \E r \in BagToSet(scheduled), op \in BagToSet(forwarded) :
    /\ BagIn(r.op, forwarded)
    /\ r.op \in inflight
    /\ op.operationName = "teardown"
    /\ op.key = r.key
    /\ op.id > r.op.id

\* ------------------------------------------------------------- lifecycle

\* forward answers what it was handed and timers run out
Fairness ==
  /\ WF_vars(\E op \in inflight, err \in Errors, rnd \in RandomDraws :
               ExecutorResult(op, err, rnd))
  /\ WF_vars(\E r \in pending : TimerFire(r))
  /\ WF_vars(\E op \in inflight : ResultAfterDispose(op))

SpecFair == Init /\ [][Next]_vars /\ Fairness

\* where the operation the caller issued as number i stands
Stage(i) ==
  IF i > issued THEN "NotIssued"
  ELSE IF \E r \in pending : r.op.id = i THEN "Pending"
  ELSE IF \E op \in inflight : op.id = i THEN "Forwarded"
  ELSE IF \E res \in BagToSet(delivered) : res.operation.id = i
  THEN LET res == CHOOSE x \in BagToSet(delivered) : x.operation.id = i
       IN IF res.error = "none" THEN "Succeeded"
          ELSE IF Retryable(res.error) THEN "FailedExhausted"
          ELSE "Failed"
  ELSE IF \E r \in superseded : r.op.id = i THEN "Canceled"
  ELSE IF \E op \in BagToSet(forwarded) : op.id = i /\ op.operationName = "teardown"
  THEN "Teardown"
  ELSE IF disposed THEN "Closed"
  ELSE "Lost"

Settled == {"Succeeded", "Failed", "FailedExhausted", "Canceled", "Teardown", "Closed"}

\* Forwarded -> Pending is a retryable failure with attempts left
Moves ==
  { <<"NotIssued", "Forwarded">>, <<"NotIssued", "Teardown">>,
    <<"Forwarded", "Succeeded">>, <<"Forwarded", "Failed">>,
    <<"Forwarded", "FailedExhausted">>, <<"Forwarded", "Pending">>,
    <<"Pending", "Forwarded">>, <<"Pending", "Canceled">>,
    <<"Forwarded", "Closed">>, <<"Pending", "Closed">> }

C17_CancelIsSilent ==
  [][ /\ superseded' # superseded =>
           /\ delivered' = delivered
           /\ results' = results
           /\ debugEvents' = debugEvents
           /\ scheduled' = scheduled
           /\ pending' \subseteq pending
      /\ \A r \in superseded' :
           /\ \A res \in BagToSet(results') : res.operation # r.op
           /\ \A e \in BagToSet(debugEvents') : e.operation # r.op
           /\ \A x \in BagToSet(scheduled') : x.failed # r.op ]_vars

C17_Witness ==
  \E r \in superseded :
    /\ r.failed.retryCount # Undefined
    /\ BagIn(DebugEvent("retryAttempt", r.failed, r.op.retryCount), debugEvents)
    /\ \A res \in BagToSet(delivered) : res.operation.id # r.op.id

\* C18: the operation a retry re-submits equals the failing operation in its
\* key, its kind and everything else but context.retryCount and
\* context.retryDelay, which are written anew (the count one higher, the delay
\* the one waited), and the failing operation is still found as it was where
\* it was forwarded, answered and reported
C18_OnlyRetryMetadataChanges ==
  \A r \in BagToSet(scheduled) :
    /\ r.op.key = r.failed.key
    /\ r.op.operationName = r.failed.operationName
    /\ [ r.op EXCEPT !.retryCount = r.failed.retryCount,
                     !.retryDelay = r.failed.retryDelay ] = r.failed
    /\ r.op.retryCount = retryCount(r.failed)
    /\ r.op.retryCount # r.failed.retryCount
    /\ r.op.retryDelay = r.delay
    /\ BagIn(r.failed, forwarded)
    /\ \E res \in BagToSet(results) : res.operation = r.failed
    /\ BagIn(DebugEvent("retryAttempt", r.failed, r.op.retryCount), debugEvents)

C18_Witness ==
  \E r \in BagToSet(scheduled) :
    /\ r.failed.operationName = "mutation"
    /\ r.failed.retryCount = 1
    /\ r.op.retryCount = 2
    /\ BagIn(r.op, forwarded)

\* C19: every result that reaches the filter is either delivered to the
\* caller or suppressed with exactly one retry scheduled for its operation,
\* never both and never neither; the retryAttempt diagnostics, the suppressed
\* results and the scheduled retries are equally many, and at least as many as
\* the re-submitted operations that were forwarded
C19_DeliveredOrRetried ==
  LET attempt(e) == e.type = "retryAttempt"
  IN /\ \A res \in BagToSet(results) :
          LET retryOf(r) == r.failed = res.operation
              answers(x) == x.operation = res.operation
          IN /\ Count(results, answers) = 1
             /\ \/ /\ CopiesIn(res, delivered) = 1
                   /\ Count(scheduled, retryOf) = 0
                \/ /\ CopiesIn(res, delivered) = 0
                   /\ Count(scheduled, retryOf) = 1
     /\ \A res \in BagToSet(delivered) : BagIn(res, results)
     /\ \A r \in BagToSet(scheduled) : \E res \in BagToSet(results) : res.operation = r.failed
     /\ Count(debugEvents, attempt) = BagCardinality(results) - BagCardinality(delivered)
     /\ Count(debugEvents, attempt) = BagCardinality(scheduled)
     /\ Count(debugEvents, attempt) >= Count(forwarded, IsRetryOp)

C19_Witness ==
  LET attempt(e) == e.type = "retryAttempt"
  IN /\ Count(debugEvents, attempt) = 2
     /\ Count(forwarded, IsRetryOp) = 1
     /\ superseded # {}
     /\ BagCardinality(delivered) = 1
     /\ BagCardinality(results) = 3

\* C20: a retry that fails is scheduled and waits whatever arrived for its key
\* while the attempt was with the executor; a waiting retry stops waiting only
\* when its own delay elapses, when the caller closes the stream, or when an
\* operation of kind query or teardown with its key arrives on the inbound
\* stream, so the re-submission of another retry never cancels it
C20_OnlyInboundWhilePendingCancels ==
  [][ /\ \A r \in BagToSet(scheduled') :
           CopiesIn(r, scheduled') > CopiesIn(r, scheduled) =>
             r \in pending' /\ r \notin superseded'
      /\ \A r \in pending \ pending' :
           \/ disposed'
           \/ /\ forwarded' = Put(forwarded, r.op)
              /\ superseded' = superseded
              /\ pending' = pending \ {r}
           \/ /\ r \in superseded'
              /\ \E op \in BagToSet(forwarded') :
                   /\ Arrives(op)
                   /\ op.operationName \in {"query", "teardown"}
                   /\ op.key = r.key
      /\ \A r \in superseded' \ superseded : r \in pending ]_vars

C20_Witness ==
  \E r \in pending, other \in pending, op \in BagToSet(forwarded) :
    /\ r.failed.retryCount = Undefined
    /\ ~IsRetryOp(op)
    /\ op.operationName = "query"
    /\ op.key = r.key
    /\ op.id > r.failed.id
    /\ other.failed = op

====
